---------------------------- MODULE Spec2Model ----------------------------
(***************************************************************************)
(* Unix to PowerShell command converter (FastAPI_UnixToPS_main.py).        *)
(*                                                                         *)
(* Text the code inspects character by character (the submitted command    *)
(* line and its tokens) is a sequence of one-character strings; text the   *)
(* code only builds or compares as a whole (templates, outputs, mapping    *)
(* keys) is a string.  Str turns the former into the latter.  A Python     *)
(* value that may be None is a sequence of length 0 (None) or 1.           *)
(***************************************************************************)
EXTENDS Naturals, Sequences, FiniteSets, TLC

VARIABLES
    source,            \* the file command_mappings.json as the process finds it
    command,           \* the command line the client submits in this behaviour
    phase,             \* "boot" | "serving" | "crashed"
    startup_error,     \* the exception that ended the import, "" if none
    command_mappings,  \* the module-level mapping table
    request,           \* the request handled last
    result,            \* what convert_unix_to_powershell returned for it
    response,          \* the response to the request handled last
    prev,              \* history: powershell_command of the conversion before
    listed             \* history: every mappings object a listing returned

vars == <<source, command, phase, startup_error, command_mappings,
          request, result, response, prev, listed>>

-----------------------------------------------------------------------------
(* Bounds *)

MaxArgs == 2

MaxRequestArgs == 1

-----------------------------------------------------------------------------
(* Text *)

Whitespace == {" ", "\t", "\n"}

RECURSIVE Str(_)
Str(s) == IF s = <<>> THEN "" ELSE Head(s) \o Str(Tail(s))

RECURSIVE lstrip(_)
lstrip(s) ==
    IF s # <<>> /\ Head(s) \in Whitespace THEN lstrip(Tail(s)) ELSE s

RECURSIVE rstrip(_)
rstrip(s) ==
    IF s # <<>> /\ s[Len(s)] \in Whitespace
    THEN rstrip(SubSeq(s, 1, Len(s) - 1))
    ELSE s

strip(s) == rstrip(lstrip(s))

\* Length of the run of non-whitespace characters s starts with.
RECURSIVE word_len(_)
word_len(s) ==
    IF s = <<>> \/ Head(s) \in Whitespace THEN 0 ELSE 1 + word_len(Tail(s))

\* str.split() with no separator: runs of whitespace separate, no empty tokens.
RECURSIVE split(_)
split(s) ==
    IF s = <<>> THEN <<>>
    ELSE IF Head(s) \in Whitespace THEN split(Tail(s))
    ELSE LET n == word_len(s)
         IN  <<SubSeq(s, 1, n)>> \o split(SubSeq(s, n + 1, Len(s)))

\* " ".join(args), as a string.
RECURSIVE join(_)
join(args) ==
    IF args = <<>> THEN ""
    ELSE IF Len(args) = 1 THEN Str(args[1])
    ELSE Str(args[1]) \o " " \o join(Tail(args))

\* x in args
contains(args, x) == \E i \in 1..Len(args) : args[i] = x

\* args.index(x), 0-based, for x in args
index(args, x) == (CHOOSE i \in 1..Len(args) :
                      args[i] = x /\ \A j \in 1..(i - 1) : args[j] # x) - 1

startswith_dash(tok) == tok # <<>> /\ Head(tok) = "-"

-----------------------------------------------------------------------------
(* The mapping table *)

DefaultTable ==
    [k \in {"ls", "pwd", "cd", "mkdir", "rmdir", "rm", "cp", "mv", "cat",
            "grep", "find", "ps", "kill", "chmod", "which", "echo", "env",
            "history", "clear", "head", "tail", "wc", "sort", "uniq", "df",
            "du", "mount", "wget", "curl", "tar", "ssh", "scp"} |->
        CASE k = "ls" -> "Get-ChildItem"
          [] k = "pwd" -> "Get-Location"
          [] k = "cd" -> "Set-Location"
          [] k = "mkdir" -> "New-Item -ItemType Directory"
          [] k = "rmdir" -> "Remove-Item -Recurse"
          [] k = "rm" -> "Remove-Item"
          [] k = "cp" -> "Copy-Item"
          [] k = "mv" -> "Move-Item"
          [] k = "cat" -> "Get-Content"
          [] k = "grep" -> "Select-String"
          [] k = "find" -> "Get-ChildItem -Recurse"
          [] k = "ps" -> "Get-Process"
          [] k = "kill" -> "Stop-Process"
          [] k = "chmod" -> "Set-ItemProperty"
          [] k = "which" -> "Get-Command"
          [] k = "echo" -> "Write-Output"
          [] k = "env" -> "Get-ChildItem Env:"
          [] k = "history" -> "Get-History"
          [] k = "clear" -> "Clear-Host"
          [] k = "head" -> "Get-Content | Select-Object -First"
          [] k = "tail" -> "Get-Content | Select-Object -Last"
          [] k = "wc" -> "Measure-Object"
          [] k = "sort" -> "Sort-Object"
          [] k = "uniq" -> "Get-Unique"
          [] k = "df" -> "Get-WmiObject -Class Win32_LogicalDisk"
          [] k = "du" -> "Get-ChildItem | Measure-Object -Property Length -Sum"
          [] k = "mount" -> "Get-WmiObject -Class Win32_Volume"
          [] k = "wget" -> "Invoke-WebRequest"
          [] k = "curl" -> "Invoke-RestMethod"
          [] k = "tar" -> "Expand-Archive / Compress-Archive"
          [] k = "ssh" -> "Enter-PSSession"
          [] k = "scp" -> "Copy-Item -ToSession / Copy-Item -FromSession"]

\* A mapping file an operator may have installed: a flat JSON object.
ExternalTable ==
    [k \in {"ls", "LS", "rm", "head", "zork"} |->
        CASE k = "ls" -> "dir"
          [] k = "LS" -> "Get-ChildItem"
          [] k = "rm" -> "del"
          [] k = "head" -> "gc -Head"
          [] k = "zork" -> "Invoke-Zork"]

\* What open() and json.load() can meet.
Sources ==
    { [status |-> "absent", content |-> <<>>],
      [status |-> "unreadable", content |-> <<>>],
      [status |-> "unparsable", content |-> <<>>],
      [status |-> "valid", content |-> <<ExternalTable>>] }

-----------------------------------------------------------------------------
(* convert_unix_to_powershell: the rewrite rules.  A rule yields what the   *)
(* function returns: <<pair>> for a (powershell_command, explanation)       *)
(* tuple, << >> for None (control falling off the end of the function).     *)

Returned(ps, expl) == << <<ps, expl>> >>

ReturnedNone == << >>

DASH_LA == <<"-", "l", "a">>
DASH_L == <<"-", "l">>
DASH_A == <<"-", "a">>
DASH_NAME == <<"-", "n", "a", "m", "e">>

PathCommands == {"cd", "mkdir", "rmdir", "rm", "cp", "mv", "cat"}

\* Mutant: -a is tested before -la and -l.
ls_rule_a_first(args, ps_base) ==
    IF contains(args, DASH_A)
    THEN Returned("Get-ChildItem -Force",
                  "Lists all files including hidden ones")
    ELSE IF contains(args, DASH_LA) \/ contains(args, DASH_L)
    THEN Returned("Get-ChildItem | Format-List",
                  "Lists files with detailed information")
    ELSE Returned(ps_base, "Lists files and directories")

ls_rule(args, ps_base) ==
    IF contains(args, DASH_LA) \/ contains(args, DASH_L)
    THEN Returned("Get-ChildItem | Format-List",
                  "Lists files with detailed information")
    ELSE IF contains(args, DASH_A)
    THEN Returned("Get-ChildItem -Force",
                  "Lists all files including hidden ones")
    ELSE Returned(ps_base, "Lists files and directories")

grep_rule(args, ps_base) ==
    IF Len(args) >= 1
    THEN LET pattern == Str(args[1])
         IN  IF Len(args) >= 2
             THEN LET file == Str(args[2])
                  IN  Returned("Select-String -Pattern '" \o pattern
                                   \o "' -Path '" \o file \o "'",
                               "Searches for pattern '" \o pattern
                                   \o "' in file '" \o file \o "'")
             ELSE Returned("Select-String -Pattern '" \o pattern \o "'",
                           "Searches for pattern '" \o pattern
                               \o "' in input")
    ELSE Returned(ps_base, "Searches for patterns in text")

find_rule(args, ps_base) ==
    IF Len(args) >= 1
    THEN IF contains(args, DASH_NAME)
         THEN LET name_idx == index(args, DASH_NAME)
              IN  IF name_idx + 1 < Len(args)
                  THEN LET pattern == Str(args[name_idx + 2])
                       IN  Returned("Get-ChildItem -Recurse -Name '*"
                                        \o pattern \o "*'",
                                    "Finds files matching pattern '"
                                        \o pattern \o "'")
                  ELSE ReturnedNone
         ELSE LET path == Str(args[1])
              IN  Returned("Get-ChildItem -Path '" \o path \o "' -Recurse",
                           "Lists all files in directory '" \o path
                               \o "' recursively")
    ELSE Returned(ps_base, "Finds files and directories")

RECURSIVE lstrip_dashes(_)
lstrip_dashes(tok) ==
    IF startswith_dash(tok) THEN lstrip_dashes(Tail(tok)) ELSE tok

\* Mutant: every leading dash is removed (lstrip("-")), not the first character.
head_rule_lstrip(args) ==
    IF Len(args) >= 1 /\ startswith_dash(args[1])
    THEN LET lines == Str(lstrip_dashes(args[1]))
         IN  IF Len(args) >= 2
             THEN LET file == Str(args[2])
                  IN  Returned("Get-Content '" \o file
                                   \o "' | Select-Object -First " \o lines,
                               "Shows first " \o lines \o " lines of file '"
                                   \o file \o "'")
             ELSE Returned("Select-Object -First " \o lines,
                           "Shows first " \o lines \o " lines")
    ELSE Returned("Get-Content | Select-Object -First 10",
                  "Shows first 10 lines (default)")

head_rule(args) ==
    IF Len(args) >= 1 /\ startswith_dash(args[1])
    THEN LET lines == Str(Tail(args[1]))
         IN  IF Len(args) >= 2
             THEN LET file == Str(args[2])
                  IN  Returned("Get-Content '" \o file
                                   \o "' | Select-Object -First " \o lines,
                               "Shows first " \o lines \o " lines of file '"
                                   \o file \o "'")
             ELSE Returned("Select-Object -First " \o lines,
                           "Shows first " \o lines \o " lines")
    ELSE Returned("Get-Content | Select-Object -First 10",
                  "Shows first 10 lines (default)")

tail_rule(args) ==
    IF Len(args) >= 1 /\ startswith_dash(args[1])
    THEN LET lines == Str(Tail(args[1]))
         IN  IF Len(args) >= 2
             THEN LET file == Str(args[2])
                  IN  Returned("Get-Content '" \o file
                                   \o "' | Select-Object -Last " \o lines,
                               "Shows last " \o lines \o " lines of file '"
                                   \o file \o "'")
             ELSE Returned("Select-Object -Last " \o lines,
                           "Shows last " \o lines \o " lines")
    ELSE Returned("Get-Content | Select-Object -Last 10",
                  "Shows last 10 lines (default)")

kill_rule(args, ps_base) ==
    IF Len(args) >= 1
    THEN LET pid == Str(args[1])
         IN  Returned("Stop-Process -Id " \o pid,
                      "Terminates process with ID " \o pid)
    ELSE Returned(ps_base, "Terminates processes")

\* Mutant: only the first argument becomes the target.
path_rule_first_arg(base_command, args, ps_base) ==
    IF Len(args) >= 1
    THEN LET target == Str(args[1])
         IN  Returned(ps_base \o " '" \o target \o "'",
                      "Performs " \o base_command \o " operation on '"
                          \o target \o "'")
    ELSE Returned(ps_base, "PowerShell equivalent of " \o base_command)

path_rule(base_command, args, ps_base) ==
    IF Len(args) >= 1
    THEN LET target == join(args)
         IN  Returned(ps_base \o " '" \o target \o "'",
                      "Performs " \o base_command \o " operation on '"
                          \o target \o "'")
    ELSE Returned(ps_base, "PowerShell equivalent of " \o base_command)

default_rule(base_command, args, ps_base) ==
    IF args # <<>>
    THEN Returned(ps_base \o " " \o join(args),
                  "PowerShell equivalent of " \o base_command
                      \o " with arguments")
    ELSE Returned(ps_base, "PowerShell equivalent of " \o base_command)

\* Mutant: the placeholder leaves the base command unquoted.
unmapped_rule_unquoted(base_command) ==
    Returned("# No direct mapping found for " \o base_command,
             "Command '" \o base_command
                 \o "' doesn't have a direct PowerShell equivalent in our database")

unmapped_rule(base_command) ==
    Returned("# No direct mapping found for '" \o base_command \o "'",
             "Command '" \o base_command
                 \o "' doesn't have a direct PowerShell equivalent in our database")

\* The pure part of the function: the table is the module-level global.
convert_with(table, unix_cmd) ==
    LET parts == split(strip(unix_cmd))
        base_command == IF parts # <<>> THEN Str(parts[1]) ELSE ""
        args == IF Len(parts) > 1 THEN Tail(parts) ELSE <<>>
    IN  IF base_command \in DOMAIN table
        THEN LET ps_base == table[base_command]
             IN  CASE base_command = "ls" -> ls_rule(args, ps_base)
                   [] base_command = "grep" -> grep_rule(args, ps_base)
                   [] base_command = "find" -> find_rule(args, ps_base)
                   [] base_command = "head" -> head_rule(args)
                   [] base_command = "tail" -> tail_rule(args)
                   [] base_command = "kill" -> kill_rule(args, ps_base)
                   [] base_command \in PathCommands ->
                          path_rule(base_command, args, ps_base)
                   [] OTHER -> default_rule(base_command, args, ps_base)
        ELSE unmapped_rule(base_command)

convert_unix_to_powershell(unix_cmd) ==
    convert_with(command_mappings, unix_cmd)

-----------------------------------------------------------------------------
(* Requests and responses *)

\* Mutant: the field's default is True.
UnixCommand_default_true(cmd, include_explanation) ==
    [command |-> cmd,
     include_explanation |->
         IF include_explanation = <<>> THEN TRUE ELSE include_explanation[1]]

\* UnixCommand: include_explanation defaults to False when the body omits it
\* (<< >>: omitted, <<b>>: given as b).
UnixCommand(cmd, include_explanation) ==
    [command |-> cmd,
     include_explanation |->
         IF include_explanation = <<>> THEN FALSE ELSE include_explanation[1]]

\* PowerShellResponse: explanation defaults to None.
PowerShellResponse(unix_command, powershell_command, status) ==
    [unix_command |-> unix_command,
     powershell_command |-> powershell_command,
     explanation |-> <<>>,
     status |-> status]

CommandMappingsResponse(mappings, total_commands) ==
    [mappings |-> mappings, total_commands |-> total_commands]

\* raise HTTPException(status_code, detail), as the client sees it.
HTTPException(endpoint, status_code, detail) ==
    [endpoint |-> endpoint, status_code |-> status_code,
     body |-> [detail |-> detail]]

\* A returned value, as the client sees it.
Ok(endpoint, body) ==
    [endpoint |-> endpoint, status_code |-> 200, body |-> body]

NoRequest == [endpoint |-> "none"]

NoResponse == [endpoint |-> "none", status_code |-> 0, body |-> [detail |-> ""]]

NotCalled == [called |-> FALSE, returned |-> <<>>]

Called(r) == [called |-> TRUE, returned |-> r]

IsConversion(r) == r.endpoint = "convert" /\ r.status_code = 200

IsListing(r) == r.endpoint = "mappings" /\ r.status_code = 200

\* The response goes out; the histories take note of the one it replaces.
Reply(r) ==
    /\ response' = r
    /\ prev' = IF IsConversion(response)
               THEN <<response.body.powershell_command>>
               ELSE prev
    /\ listed' = IF IsListing(r) THEN listed \cup {r.body.mappings} ELSE listed

-----------------------------------------------------------------------------
(* Startup *)

\* command_mappings = load_command_mappings(): only FileNotFoundError is
\* caught; any other exception ends the import of the module.
load_command_mappings ==
    /\ phase = "boot"
    /\ CASE source.status = "absent" ->
              /\ command_mappings' = DefaultTable
              /\ phase' = "serving"
              /\ startup_error' = ""
         [] source.status = "unreadable" ->
              /\ command_mappings' = command_mappings
              /\ phase' = "crashed"
              /\ startup_error' = "PermissionError"
         [] source.status = "unparsable" ->
              /\ command_mappings' = command_mappings
              /\ phase' = "crashed"
              /\ startup_error' = "JSONDecodeError"
         [] source.status = "valid" ->
              /\ command_mappings' = source.content[1]
              /\ phase' = "serving"
              /\ startup_error' = ""
    /\ UNCHANGED <<source, command, request, result, response, prev, listed>>

-----------------------------------------------------------------------------
(* Handlers *)

read_root ==
    /\ phase = "serving"
    /\ request' = [endpoint |-> "root"]
    /\ result' = NotCalled
    /\ Reply(Ok("root",
                [message |-> "Unix to PowerShell Command Converter API",
                 endpoints |-> <<"/convert", "/mappings", "/docs">>]))
    /\ UNCHANGED <<source, command, phase, startup_error, command_mappings>>

\* Mutant: the emptiness test forgets to strip.
is_empty_no_strip(cmd) == cmd = <<>>

\* not request.command.strip()
is_empty(cmd) == strip(cmd) = <<>>

\* POST /convert.  The 400 is raised before the try; inside it, the unpacking
\* of a None return raises TypeError, which the handler reports as a 500.
convert_command(include_explanation) ==
    /\ phase = "serving"
    /\ LET req == UnixCommand(command, include_explanation)
       IN  /\ request' = [endpoint |-> "convert", command |-> command,
                          include_explanation |-> include_explanation]
           /\ IF is_empty(req.command)
              THEN /\ result' = NotCalled
                   /\ Reply(HTTPException("convert", 400,
                                          "Command cannot be empty"))
              ELSE LET r == convert_unix_to_powershell(req.command)
                   IN  /\ result' = Called(r)
                       /\ IF r = ReturnedNone
                          THEN Reply(HTTPException("convert", 500,
                                   "Error converting command: cannot unpack non-iterable NoneType object"))
                          ELSE LET ps_command == r[1][1]
                                   explanation == r[1][2]
                                   resp == PowerShellResponse(
                                               req.command, ps_command, "success")
                               IN  Reply(Ok("convert",
                                       IF req.include_explanation
                                       THEN [resp EXCEPT
                                                !.explanation = <<explanation>>]
                                       ELSE resp))
    /\ UNCHANGED <<source, command, phase, startup_error, command_mappings>>

get_command_mappings ==
    /\ phase = "serving"
    /\ request' = [endpoint |-> "mappings"]
    /\ result' = NotCalled
    /\ Reply(Ok("mappings",
                CommandMappingsResponse(command_mappings,
                    Cardinality(DOMAIN command_mappings))))
    /\ UNCHANGED <<source, command, phase, startup_error, command_mappings>>

\* Mutant: a miss is remembered in the table.
get_specific_mapping_caching(unix_command) ==
    /\ phase = "serving"
    /\ request' = [endpoint |-> "mapping", unix_command |-> unix_command]
    /\ result' = NotCalled
    /\ IF unix_command \in DOMAIN command_mappings
       THEN /\ Reply(Ok("mapping",
                        [unix_command |-> unix_command,
                         powershell_command |-> command_mappings[unix_command],
                         status |-> "found"]))
            /\ command_mappings' = command_mappings
       ELSE /\ Reply(HTTPException("mapping", 404,
                         "No mapping found for command: " \o unix_command))
            /\ command_mappings' = command_mappings @@ (unix_command :> "")
    /\ UNCHANGED <<source, command, phase, startup_error>>

get_specific_mapping(unix_command) ==
    /\ phase = "serving"
    /\ request' = [endpoint |-> "mapping", unix_command |-> unix_command]
    /\ result' = NotCalled
    /\ IF unix_command \in DOMAIN command_mappings
       THEN Reply(Ok("mapping",
                     [unix_command |-> unix_command,
                      powershell_command |-> command_mappings[unix_command],
                      status |-> "found"]))
       ELSE Reply(HTTPException("mapping", 404,
                      "No mapping found for command: " \o unix_command))
    /\ UNCHANGED <<source, command, phase, startup_error, command_mappings>>

-----------------------------------------------------------------------------
(* The command lines a client submits *)

BaseWords ==
    { <<"l", "s">>, <<"L", "S">>, <<"g", "r", "e", "p">>,
      <<"f", "i", "n", "d">>, <<"h", "e", "a", "d">>, <<"t", "a", "i", "l">>,
      <<"k", "i", "l", "l">>, <<"r", "m">>, <<"c", "d">>,
      <<"e", "c", "h", "o">>, <<"z", "o", "r", "k">> }

ArgWords ==
    { DASH_LA, DASH_L, DASH_A, DASH_NAME, <<"-", "5">>, <<"-", "-", "5">>,
      <<"f">>, <<"o", "'", "k">> }

\* How a client lays a line out: what precedes it, separates its words and
\* follows it.
Layouts ==
    { [lead |-> <<>>, sep |-> <<" ">>, trail |-> <<>>],
      [lead |-> <<" ">>, sep |-> <<"\t", " ">>, trail |-> <<"\n">>] }

BlankLines == { <<>>, <<" ">>, <<" ", "\t">>, <<"\n">> }

RECURSIVE Spaced(_, _)
Spaced(sep, words) ==
    IF words = <<>> THEN <<>> ELSE sep \o Head(words) \o Spaced(sep, Tail(words))

LinesUpTo(n) ==
    BlankLines \cup
    { l.lead \o b \o Spaced(l.sep, a) \o l.trail :
        l \in Layouts, b \in BaseWords,
        a \in UNION { [1..k -> ArgWords] : k \in 0..n } }

IncludeOptions == { <<>>, <<TRUE>>, <<FALSE>> }

LookupNames == { "ls", "zork", "nosuch" }

-----------------------------------------------------------------------------
(* The server: one process, started once, serving any sequence of requests *)

InitWith(lines) ==
    /\ source \in Sources
    /\ command \in lines
    /\ phase = "boot"
    /\ startup_error = ""
    /\ command_mappings = << >>
    /\ request = NoRequest
    /\ result = NotCalled
    /\ response = NoResponse
    /\ prev = <<>>
    /\ listed = {}

Init == InitWith(LinesUpTo(MaxRequestArgs))

Next ==
    \/ load_command_mappings
    \/ read_root
    \/ \E include_explanation \in IncludeOptions :
           convert_command(include_explanation)
    \/ get_command_mappings
    \/ \E unix_command \in LookupNames : get_specific_mapping(unix_command)

Spec == Init /\ [][Next]_vars

(* The translation engine on its own: richer command lines, conversions only *)

InitEngine == InitWith(LinesUpTo(MaxArgs))

NextEngine ==
    \/ load_command_mappings
    \/ \E include_explanation \in {<<TRUE>>} :
           convert_command(include_explanation)

SpecEngine == InitEngine /\ [][NextEngine]_vars

-----------------------------------------------------------------------------
(* What the claims speak of, stated on the submitted line itself: its words *)
(* are its maximal runs of non-whitespace characters, in order.             *)

Blank(line) == \A i \in 1..Len(line) : line[i] \in Whitespace

WordStarts(line) ==
    { i \in 1..Len(line) :
        line[i] \notin Whitespace /\ (i = 1 \/ line[i - 1] \in Whitespace) }

WordEnd(line, i) ==
    CHOOSE j \in i..Len(line) :
        /\ \A k \in i..j : line[k] \notin Whitespace
        /\ j = Len(line) \/ line[j + 1] \in Whitespace

NthStart(line, n) ==
    CHOOSE i \in WordStarts(line) :
        Cardinality({ j \in WordStarts(line) : j < i }) = n - 1

Words(line) ==
    [n \in 1..Cardinality(WordStarts(line)) |->
        SubSeq(line, NthStart(line, n), WordEnd(line, NthStart(line, n)))]

Base == IF Blank(command) THEN "" ELSE Str(Words(command)[1])

Args == IF Blank(command) THEN <<>> ELSE Tail(Words(command))

RECURSIVE SingleSpaced(_)
SingleSpaced(ws) ==
    IF ws = <<>> THEN ""
    ELSE IF Len(ws) = 1 THEN Str(ws[1])
    ELSE SingleSpaced(SubSeq(ws, 1, Len(ws) - 1)) \o " " \o Str(ws[Len(ws)])

Engaged == phase = "serving" /\ result.called

Mapped(b) == Base = b /\ b \in DOMAIN command_mappings

GavePair == result.returned # ReturnedNone

PsCommand == result.returned[1][1]

Explanation == result.returned[1][2]

Succeeded ==
    /\ IsConversion(response)
    /\ response.body.status = "success"
    /\ response.body.powershell_command = PsCommand

-----------------------------------------------------------------------------
(* Claims *)

\* C1: for a find command whose only -name is its last argument, conversion
\* takes the first argument as path and returns the pair
\* (Get-ChildItem -Path '<path>' -Recurse, its explanation).
C1_FindTrailingNameFallsBack ==
    (/\ Engaged
     /\ Mapped("find")
     /\ Args # <<>>
     /\ Args[Len(Args)] = DASH_NAME
     /\ \A i \in 1..(Len(Args) - 1) : Args[i] # DASH_NAME)
    => /\ GavePair
       /\ PsCommand = "Get-ChildItem -Path '" \o Str(Args[1]) \o "' -Recurse"
       /\ Explanation = "Lists all files in directory '" \o Str(Args[1])
                            \o "' recursively"

\* C2: every conversion request whose command is not blank is answered with
\* status "success".
C2_NonBlankAlwaysSucceeds ==
    (phase = "serving" /\ request.endpoint = "convert" /\ ~Blank(command))
    => IsConversion(response) /\ response.body.status = "success"

\* C3: loading never surfaces an error: the table is the source's content when
\* the source is present and parsable, and the built-in default table (32
\* entries) in every other case.
C3_LoadNeverFails ==
    phase # "boot"
    => /\ phase = "serving"
       /\ startup_error = ""
       /\ Cardinality(DOMAIN DefaultTable) = 32
       /\ command_mappings = IF source.status = "valid"
                             THEN source.content[1]
                             ELSE DefaultTable

\* C4: a blank command (empty or whitespace only) is answered 400 without the
\* engine being invoked, and every other command reaches the engine.
C4_BlankRejectedAtBoundary ==
    (phase = "serving" /\ request.endpoint = "convert")
    => IF Blank(command)
       THEN /\ ~result.called
            /\ response = [endpoint |-> "convert", status_code |-> 400,
                           body |-> [detail |-> "Command cannot be empty"]]
       ELSE result.called

C4_Witness ==
    /\ request.endpoint = "convert"
    /\ command # <<>>
    /\ Blank(command)
    /\ response.status_code = 400
    /\ ~result.called

\* C5: a base command that is not a key of the table yields, whatever the
\* arguments, the placeholder naming it and the explanation naming it, and
\* the request succeeds.
C5_UnmappedPlaceholder ==
    (Engaged /\ Base \notin DOMAIN command_mappings)
    => /\ GavePair
       /\ PsCommand = "# No direct mapping found for '" \o Base \o "'"
       /\ Explanation = "Command '" \o Base
              \o "' doesn't have a direct PowerShell equivalent in our database"
       /\ Succeeded

C5_Witness ==
    /\ Engaged
    /\ Base = "LS"
    /\ "ls" \in DOMAIN command_mappings
    /\ "LS" \notin DOMAIN command_mappings
    /\ Len(Args) = MaxArgs
    /\ PsCommand = "# No direct mapping found for 'LS'"
    /\ Succeeded

\* C6: for ls, -la or -l anywhere among the arguments gives the detailed
\* listing even beside -a; otherwise -a anywhere gives -Force; otherwise the
\* table's template is returned unmodified.
C6_LsFlagPrecedence ==
    (Engaged /\ Mapped("ls"))
    => /\ GavePair
       /\ PsCommand =
              IF \E i \in 1..Len(Args) : Args[i] \in {DASH_LA, DASH_L}
              THEN "Get-ChildItem | Format-List"
              ELSE IF \E i \in 1..Len(Args) : Args[i] = DASH_A
              THEN "Get-ChildItem -Force"
              ELSE command_mappings["ls"]

C6_Witness ==
    /\ Engaged
    /\ Mapped("ls")
    /\ Len(Args) = 2
    /\ Args[1] = DASH_A
    /\ Args[2] = DASH_L
    /\ PsCommand = "Get-ChildItem | Format-List"

\* C7: for head and tail, a first argument beginning with - gives the count
\* (that argument without its first character), with the file when a second
\* argument exists; otherwise the default of 10 and the arguments are
\* ignored.  head yields -First, tail yields -Last.
C7_HeadTailCount ==
    (Engaged /\ (Mapped("head") \/ Mapped("tail")))
    => LET which == IF Base = "head" THEN "-First" ELSE "-Last"
       IN  /\ GavePair
           /\ PsCommand =
                  IF Args # <<>> /\ Args[1][1] = "-"
                  THEN LET count == Str(Tail(Args[1]))
                       IN  IF Len(Args) >= 2
                           THEN "Get-Content '" \o Str(Args[2])
                                    \o "' | Select-Object " \o which
                                    \o " " \o count
                           ELSE "Select-Object " \o which \o " " \o count
                  ELSE "Get-Content | Select-Object " \o which \o " 10"

C7_Witness ==
    /\ Engaged
    /\ Mapped("head")
    /\ Len(Args) = 2
    /\ Args[1] = <<"-", "-", "5">>
    /\ PsCommand = "Get-Content 'f' | Select-Object -First -5"

\* C8: a conversion response carries the explanation exactly when the request
\* set include_explanation to true; powershell_command does not depend on the
\* flag, and unix_command is the submitted string, untrimmed.
C8_ExplanationOnRequest ==
    IsConversion(response)
    => /\ response.body.explanation # <<>>
              <=> request.include_explanation = <<TRUE>>
       /\ response.body.explanation # <<>>
              => response.body.explanation = <<Explanation>>
       /\ response.body.unix_command = command
       /\ prev # <<>> => prev[1] = response.body.powershell_command

C8_Witness ==
    /\ IsConversion(response)
    /\ request.include_explanation = <<>>
    /\ response.body.explanation = <<>>
    /\ prev # <<>>
    /\ command[1] = " "
    /\ response.body.unix_command[1] = " "

\* C9: once built, the table never changes, whatever requests are served; all
\* listings return the same mappings, and a listing's total_commands is the
\* number of entries of its mappings.
C9_TableNeverChanges ==
    /\ [][phase = "serving" => command_mappings' = command_mappings]_vars
    /\ [](Cardinality(listed) <= 1)
    /\ [](IsListing(response)
            => /\ response.body.mappings = command_mappings
               /\ response.body.total_commands =
                      Cardinality(DOMAIN response.body.mappings))

C9_Witness ==
    /\ IsListing(response)
    /\ prev # <<>>
    /\ listed = {command_mappings}
    /\ response.body.total_commands = 32

\* C10: for cd, mkdir, rmdir, rm, cp, mv and cat, the arguments, in order and
\* joined by single spaces whatever whitespace separated them, go verbatim
\* inside one pair of quotes after the template; with no argument the result
\* is the template alone.
C10_PathTargetJoined ==
    (Engaged /\ Base \in PathCommands /\ Base \in DOMAIN command_mappings)
    => /\ GavePair
       /\ PsCommand =
              IF Args # <<>>
              THEN command_mappings[Base] \o " '" \o SingleSpaced(Args) \o "'"
              ELSE command_mappings[Base]

C10_Witness ==
    /\ Engaged
    /\ Mapped("rm")
    /\ \E i \in 1..Len(command) : command[i] = "\t"
    /\ PsCommand = "Remove-Item 'o'k f'"

=============================================================================
